---- MODULE Spec2Model ----
(***************************************************************************)
(* Model of src/hci/adapters/le.rs: LEAdapter, the LE command methods      *)
(* built on Adapter::send_command and the observation streams built on     *)
(* Adapter::read_event.                                                    *)
(*                                                                         *)
(* The transport (adapter::Adapter) and the codec (commands, Status,       *)
(* RawMetaEvent, AdvertisingReport) are outside this file; they are the    *)
(* environment here: every outcome they can hand back is chosen with \E.   *)
(***************************************************************************)
EXTENDS Integers, Sequences, FiniteSets, TLC

\* ---------------------------------------------------------------- bounds
MaxCalls == 2        \* invocations made on one adapter in a run
MaxStatus == 2       \* status codes 0..MaxStatus (0 is success)
MaxDataLen == 33     \* longest advertising payload a caller submits
MaxReports == 2      \* most reports bundled in one Advertising Report event
MaxScript == 2       \* read results the transport has ready for a stream

\* ------------------------------------------------------ program constants
MAX_ADV_LEN == 31
RAND_LEN == 8

VARIABLES
    hist,     \* the transport's history: writes and reads performed, in order
    ncalls,   \* invocations completed on this adapter
    call,     \* the invocation holding `&mut self`, or NoCall
    last      \* what the latest completed invocation returned to its caller

vars == <<hist, ncalls, call, last>>

\* ------------------------------------------------------------ value sets
CmdOps ==
    { "get_advertising_tx_power", "set_scan_enable", "set_scan_parameters",
      "set_advertising_enable", "set_advertising_parameters", "get_rand",
      "set_advertising_data" }

TransportErrors == { "IOError", "ChannelClosed" }
StatusCodes == 0 .. MaxStatus
PowerLevels == { -20, 4 }
RandBlocks ==
    { [i \in 1 .. RAND_LEN |-> 0], [i \in 1 .. RAND_LEN |-> 255],
      [i \in 1 .. RAND_LEN |-> i] }
DataLens == { 0, 1, MAX_ADV_LEN - 1, MAX_ADV_LEN, MAX_ADV_LEN + 1, MaxDataLen }
Payloads == { [i \in 1 .. n |-> 0] : n \in DataLens }
ScanParams == { "scan_params_a", "scan_params_b" }
AdvParams == { "adv_params_a", "adv_params_b" }

\* ------------------------------------------------------- results, errors
Unit == <<>>
NoResult == [tag |-> "None", err |-> "", code |-> 0, val |-> Unit]
Ok(v) == [tag |-> "Ok", err |-> "", code |-> 0, val |-> v]
BadParameter == [tag |-> "Err", err |-> "BadParameter", code |-> 0, val |-> Unit]
TransportError(e) == [tag |-> "Err", err |-> e, code |-> 0, val |-> Unit]
ErrorCode(s) == [tag |-> "Err", err |-> "ErrorCode", code |-> s, val |-> Unit]

\* Status::error(): success is the one value 0, every other value is an error
\* carrying the code.
StatusError(status) == IF status = 0 THEN Ok(Unit) ELSE ErrorCode(status)

\* The return parameters the codec decodes for each command.
NoResp == [status |-> 0, power_level |-> 0, random_bytes |-> <<>>]
Responses(op) ==
    CASE op = "get_advertising_tx_power" ->
            { [status |-> s, power_level |-> p, random_bytes |-> <<>>] :
                s \in StatusCodes, p \in PowerLevels }
      [] op = "get_rand" ->
            { [status |-> s, power_level |-> 0, random_bytes |-> b] :
                s \in StatusCodes, b \in RandBlocks }
      [] OTHER ->
            { [status |-> s, power_level |-> 0, random_bytes |-> <<>>] :
                s \in StatusCodes }

\* ----------------------------------------------------------- invocations
NoCall ==
    [ op |-> "none", arg |-> Unit, pc |-> "idle", hist0 |-> <<>>,
      sends |-> 0, checked |-> FALSE, resp |-> NoResp, result |-> NoResult ]

Invoke(op, arg) ==
    [ op |-> op, arg |-> arg, pc |-> "send", hist0 |-> hist,
      sends |-> 0, checked |-> FALSE, resp |-> NoResp, result |-> NoResult ]

Returned(c, r) == [c EXCEPT !.pc = "returned", !.result = r]

Idle == call.pc = "idle" /\ ncalls < MaxCalls

Init ==
    /\ hist = <<>>
    /\ ncalls = 0
    /\ call = NoCall
    /\ last = NoResult

\* ------------------------------------------- after send_command's Ok(r)
\* Variant: the power level projected without looking at the status.
get_advertising_tx_power_unchecked(r) == Ok(<<r.power_level>>)

\* `r.status.error()?; Ok(r.power_level)`
get_advertising_tx_power_result(r) ==
    IF StatusError(r.status).tag = "Err"
      THEN StatusError(r.status)
      ELSE Ok(<<r.power_level>>)

\* Variant: one byte short of the block.
get_rand_result_truncated(r) ==
    IF StatusError(r.status).tag = "Err"
      THEN StatusError(r.status)
      ELSE Ok(SubSeq(r.random_bytes, 1, RAND_LEN - 1))

\* `r.status.error()?; Ok(r.random_bytes)`
get_rand_result(r) ==
    IF StatusError(r.status).tag = "Err"
      THEN StatusError(r.status)
      ELSE Ok(r.random_bytes)

\* `.status.error()?; Ok(())`
unit_result(r) ==
    IF StatusError(r.status).tag = "Err"
      THEN StatusError(r.status)
      ELSE Ok(Unit)

Complete(op, r) ==
    CASE op = "get_advertising_tx_power" -> get_advertising_tx_power_result(r)
      [] op = "get_rand" -> get_rand_result(r)
      [] OTHER -> unit_result(r)

\* Variant: an earlier call's error is kept and handed to the next call.
Received_sticky(c, r) ==
    IF last.tag = "Err"
      THEN Returned([c EXCEPT !.resp = r, !.checked = TRUE], last)
      ELSE Returned([c EXCEPT !.resp = r, !.checked = TRUE], Complete(c.op, r))

\* send_command's Ok(r): the status is checked, then the payload projected,
\* with no suspension in between.
Received(c, r) ==
    Returned([c EXCEPT !.resp = r, !.checked = TRUE], Complete(c.op, r))

\* ------------------------------------------------ Adapter::send_command
\* One command write, then one read of the command's response event.
Io(kind, res) == [io |-> kind, res |-> res]

\* Variant: a failed round trip is tried once more before giving up.
SendFailed_retry(c, e) ==
    IF c.sends < 2 THEN [c EXCEPT !.pc = "send"] ELSE Returned(c, TransportError(e))

\* `.await?` on send_command's result: a transport error leaves the method
\* at once, carrying that error.
SendFailed(c, e) == Returned(c, TransportError(e))

SendCommandWrite ==
    /\ call.pc = "send"
    /\ UNCHANGED <<ncalls, last>>
    /\ \E w \in {"ok"} \cup TransportErrors :
          /\ hist' = Append(hist, Io("write", w))
          /\ call' = IF w = "ok"
                       THEN [call EXCEPT !.pc = "await", !.sends = @ + 1]
                       ELSE SendFailed([call EXCEPT !.sends = @ + 1], w)

SendCommandRead ==
    /\ call.pc = "await"
    /\ UNCHANGED <<ncalls, last>>
    /\ \/ \E r \in Responses(call.op) :
             /\ hist' = Append(hist, Io("read", "ok"))
             /\ call' = Received(call, r)
       \/ \E e \in TransportErrors :
             /\ hist' = Append(hist, Io("read", e))
             /\ call' = SendFailed(call, e)

\* ------------------------------------------------------ command methods
\* Variants: the length bound off by one, either way.
TooLong_off_by_one(data) == Len(data) > MAX_ADV_LEN + 1
TooLong_inclusive(data) == Len(data) >= MAX_ADV_LEN

\* `data.len() > MAX_ADV_LEN`
TooLong(data) == Len(data) > MAX_ADV_LEN

get_advertising_tx_power ==
    /\ Idle
    /\ call' = Invoke("get_advertising_tx_power", Unit)
    /\ UNCHANGED <<hist, ncalls, last>>

set_scan_enable ==
    /\ Idle
    /\ \E is_enabled \in BOOLEAN, filter_duplicates \in BOOLEAN :
          call' = Invoke("set_scan_enable", <<is_enabled, filter_duplicates>>)
    /\ UNCHANGED <<hist, ncalls, last>>

set_scan_parameters ==
    /\ Idle
    /\ \E scan_parameters \in ScanParams :
          call' = Invoke("set_scan_parameters", <<scan_parameters>>)
    /\ UNCHANGED <<hist, ncalls, last>>

set_advertising_enable_call(is_enabled) ==
    Invoke("set_advertising_enable", <<is_enabled>>)

set_advertising_enable ==
    /\ Idle
    /\ \E is_enabled \in BOOLEAN :
          call' = set_advertising_enable_call(is_enabled)
    /\ UNCHANGED <<hist, ncalls, last>>

set_advertising_parameters_call(parameters) ==
    Invoke("set_advertising_parameters", <<parameters>>)

set_advertising_parameters ==
    /\ Idle
    /\ \E parameters \in AdvParams :
          call' = set_advertising_parameters_call(parameters)
    /\ UNCHANGED <<hist, ncalls, last>>

get_rand ==
    /\ Idle
    /\ call' = Invoke("get_rand", Unit)
    /\ UNCHANGED <<hist, ncalls, last>>

set_advertising_data_call(data) ==
    IF TooLong(data)
      THEN Returned(Invoke("set_advertising_data", data), BadParameter)
      ELSE Invoke("set_advertising_data", data)

set_advertising_data ==
    /\ Idle
    /\ \E data \in Payloads :
          call' = set_advertising_data_call(data)
    /\ UNCHANGED <<hist, ncalls, last>>

\* ------------------------------------- impl Advertiser for LEAdapter
\* The call came through the Advertiser trait: Box::pin(LEAdapter::f(self, ..)).
Via(c) == [c EXCEPT !.op = "Advertiser::" \o @]
AdvertiserOps ==
    { "Advertiser::set_advertising_enable",
      "Advertiser::set_advertising_parameters",
      "Advertiser::set_advertising_data" }

Advertiser_set_advertising_enable_call(is_enabled) ==
    Via(set_advertising_enable_call(is_enabled))

Advertiser_set_advertising_parameters_call(advertisement_parameters) ==
    Via(set_advertising_parameters_call(advertisement_parameters))

\* Variant: the trait method builds and sends the command itself.
Advertiser_set_advertising_data_direct(data) ==
    Via(Invoke("set_advertising_data", data))

Advertiser_set_advertising_data_call(data) ==
    Via(set_advertising_data_call(data))

Advertiser_set_advertising_enable ==
    /\ Idle
    /\ \E is_enabled \in BOOLEAN :
          call' = Advertiser_set_advertising_enable_call(is_enabled)
    /\ UNCHANGED <<hist, ncalls, last>>

Advertiser_set_advertising_parameters ==
    /\ Idle
    /\ \E advertisement_parameters \in AdvParams :
          call' = Advertiser_set_advertising_parameters_call(advertisement_parameters)
    /\ UNCHANGED <<hist, ncalls, last>>

Advertiser_set_advertising_data ==
    /\ Idle
    /\ \E data \in Payloads :
          call' = Advertiser_set_advertising_data_call(data)
    /\ UNCHANGED <<hist, ncalls, last>>

\* The future has resolved (or the call has unwound): `&mut self` is released.
Return ==
    /\ call.pc = "returned"
    /\ call' = NoCall
    /\ ncalls' = ncalls + 1
    /\ last' = call.result
    /\ UNCHANGED hist

\* ------------------------------------------------------- events, codec
LEMeta == "LEMeta"
EventCodes == { LEMeta, "CommandComplete", "DisconnectionComplete" }
ReportInfos == 1 .. MaxReports
\* Report collections: R1..Rn for every n up to the bound, and the same
\* reports in the other order.
Collections ==
    { [i \in 1 .. n |-> i] : n \in 0 .. MaxReports }
        \cup { [i \in 1 .. n |-> n + 1 - i] : n \in 1 .. MaxReports }
\* What an LE-Meta payload can hold: nothing a sub-event can be read from,
\* a sub-event other than Advertising Report, an Advertising Report whose
\* records do not parse, or a well-formed Advertising Report.
MetaForms == { "NoSubevent", "OtherSubevent", "BadReports", "Reports" }
EventPacket(code, form, reports) ==
    [event_code |-> code, form |-> form, reports |-> reports]
EventPackets ==
    { EventPacket(c, "NoSubevent", <<>>) : c \in EventCodes \ {LEMeta} }
        \cup { EventPacket(LEMeta, f, <<>>) : f \in MetaForms \ {"Reports"} }
        \cup { EventPacket(LEMeta, "Reports", rs) : rs \in Collections }

EventError(e) == [tag |-> "Err", err |-> e, code |-> 0, val |-> Unit]

\* RawMetaEvent::try_from(event.as_ref())
RawMetaEventTryFrom(event) ==
    IF event.form = "NoSubevent" THEN EventError("BadLength") ELSE Ok(<<event>>)

\* AdvertisingReport::meta_unpack_packet(meta_event.as_ref())
MetaUnpackPacket(meta) ==
    CASE meta.form = "OtherSubevent" -> EventError("BadOpcode")
      [] meta.form = "BadReports" -> EventError("BadLength")
      [] OTHER -> Ok(meta.reports)

\* `.map_err(StreamError::EventError)?`, then into adapter::Error
StreamErrorEventError(r) == [r EXCEPT !.err = "StreamError::EventError(" \o @ \o ")"]

\* Adapter::read_event: the results the transport can hand to one read.
ReadResults ==
    { Ok(<<ev>>) : ev \in EventPackets }
        \cup { TransportError(e) : e \in TransportErrors }
Scripts == UNION { [1 .. n -> ReadResults] : n \in 0 .. MaxScript }

\* --------------------------------------------------------------- streams
\* A stream is the sequence of items it yields against the read results the
\* transport has ready; each item carries the number of transport reads the
\* pull that yields it performs.
Item(v, n) == [val |-> v, reads |-> n]
Some(v) == <<v>>
None == <<>>

\* unfold(self, |s| async move { Some((s.adapter.as_mut().read_event().await, s)) })
Unfold(script) == [i \in 1 .. Len(script) |-> Item(script[i], 1)]

\* The closure given to filter_map.
FilterClosure(p) ==
    IF p.tag = "Err"
      THEN Some(p)
      ELSE LET event == p.val[1] IN
           IF event.event_code = LEMeta
             THEN LET meta_event == RawMetaEventTryFrom(event) IN
                  IF meta_event.tag = "Err"
                    THEN Some(StreamErrorEventError(meta_event))
                    ELSE LET report == MetaUnpackPacket(meta_event.val[1]) IN
                         IF report.tag = "Err"
                           THEN Some(StreamErrorEventError(report))
                           ELSE Some(Ok(report.val))
             ELSE None

\* StreamExt::filter_map: a pull keeps polling upstream until the closure
\* yields Some; `carried` is the reads of the items dropped on the way.
RECURSIVE FilterMap(_, _)
FilterMap(items, carried) ==
    IF items = <<>>
      THEN <<>>
      ELSE LET o == FilterClosure(Head(items).val)
               n == carried + Head(items).reads
           IN IF o = None
                THEN FilterMap(Tail(items), n)
                ELSE <<Item(o[1], n)>> \o FilterMap(Tail(items), 0)

\* IntoIterator for AdvertisingReport: its reports, in order.
IntoIter(report) == report

\* The closure given to map: Left(iter(report).map(Ok)) | Right(once(Err(err)))
FlattenClosure(r) ==
    IF r.tag = "Ok"
      THEN [i \in 1 .. Len(IntoIter(r.val)) |-> Ok(<<IntoIter(r.val)[i]>>)]
      ELSE <<r>>

\* StreamExt::map(..).flatten(): the inner stream is drained before upstream
\* is polled again; an empty inner stream makes the pull poll upstream again.
RECURSIVE Flatten(_, _)
Flatten(items, carried) ==
    IF items = <<>>
      THEN <<>>
      ELSE LET inner == FlattenClosure(Head(items).val)
               n == carried + Head(items).reads
           IN IF inner = <<>>
                THEN Flatten(Tail(items), n)
                ELSE [i \in 1 .. Len(inner) |->
                        Item(inner[i], IF i = 1 THEN n ELSE 0)]
                     \o Flatten(Tail(items), 0)

\* todo!(..): panics; the statements after it are never evaluated.
Panic(msg) == [tag |-> "Panic", err |-> msg, code |-> 0, val |-> Unit]
Stream(items) == [tag |-> "Stream", err |-> "", code |-> 0, val |-> items]
Then(first, rest) == IF first.tag = "Panic" THEN first ELSE rest

hci_event_stream_value(script) ==
    Then(Panic("not yet implemented: set HCI Filter to AdvertisingReport"),
         Stream(Unfold(script)))

advertising_report_stream_value(script) ==
    LET up == hci_event_stream_value(script) IN
    Then(up, Stream(FilterMap(up.val, 0)))

advertisement_stream_value(script) ==
    LET up == advertising_report_stream_value(script) IN
    Then(up, Stream(Flatten(up.val, 0)))

\* Variant: the event filter is set by a command sent from the constructor.
hci_event_stream_sets_filter ==
    /\ Idle
    /\ \E script \in Scripts : call' = Invoke("hci_event_stream", script)
    /\ UNCHANGED <<hist, ncalls, last>>

hci_event_stream ==
    /\ Idle
    /\ \E script \in Scripts :
          call' = Returned(Invoke("hci_event_stream", script),
                           hci_event_stream_value(script))
    /\ UNCHANGED <<hist, ncalls, last>>

advertising_report_stream ==
    /\ Idle
    /\ \E script \in Scripts :
          call' = Returned(Invoke("advertising_report_stream", script),
                           advertising_report_stream_value(script))
    /\ UNCHANGED <<hist, ncalls, last>>

advertisement_stream ==
    /\ Idle
    /\ \E script \in Scripts :
          call' = Returned(Invoke("advertisement_stream", script),
                           advertisement_stream_value(script))
    /\ UNCHANGED <<hist, ncalls, last>>

Next ==
    \/ get_advertising_tx_power
    \/ set_scan_enable
    \/ set_scan_parameters
    \/ set_advertising_enable
    \/ set_advertising_parameters
    \/ get_rand
    \/ set_advertising_data
    \/ Advertiser_set_advertising_enable
    \/ Advertiser_set_advertising_parameters
    \/ Advertiser_set_advertising_data
    \/ SendCommandWrite
    \/ SendCommandRead
    \/ hci_event_stream
    \/ advertising_report_stream
    \/ advertisement_stream
    \/ Return

Spec == Init /\ [][Next]_vars

\* ================================================================ claims
\* What the current invocation has done on the transport so far.
Ios == SubSeq(hist, Len(call.hist0) + 1, Len(hist))
Writes == Len(SelectSeq(Ios, LAMBDA x : x.io = "write"))
Reads == Len(SelectSeq(Ios, LAMBDA x : x.io = "read"))
Failures == SelectSeq(Ios, LAMBDA x : x.res # "ok")
RoundTripOk == Len(Ios) = 2 /\ Ios[2] = Io("read", "ok")
IsSetAdvData == call.op = "set_advertising_data"
Oversized == IsSetAdvData /\ Len(call.arg) > MAX_ADV_LEN
IsCommand == call.op \in CmdOps /\ ~Oversized

\* C1: a payload longer than 31 bytes makes set_advertising_data return
\* BadParameter at once, with no transport write and no transport read: the
\* transport's history is what it was when the call began.
C1_OversizedRejected ==
    Oversized =>
        /\ call.pc = "returned"
        /\ call.result = BadParameter
        /\ call.sends = 0
        /\ hist = call.hist0

C1_Witness ==
    /\ Oversized
    /\ Len(call.arg) = MAX_ADV_LEN + 1
    /\ call.pc = "returned"
    /\ hist # <<>>

\* C2: a payload of at most 31 bytes (0 and 31 included) makes
\* set_advertising_data issue exactly one command, and once the round trip
\* has succeeded the call returns a controller status error if and only if the
\* response's status is non-zero, and Ok otherwise.
C2_ValidPayloadOneCommand ==
    (IsSetAdvData /\ Len(call.arg) <= MAX_ADV_LEN /\ call.pc = "returned") =>
        /\ call.sends = 1
        /\ Writes = 1
        /\ RoundTripOk =>
              /\ call.result = ErrorCode(call.resp.status) <=> call.resp.status # 0
              /\ call.result = Ok(Unit) <=> call.resp.status = 0

C2_Witness ==
    /\ IsSetAdvData
    /\ Len(call.arg) = MAX_ADV_LEN
    /\ call.pc = "returned"
    /\ RoundTripOk
    /\ call.resp.status # 0
    /\ call.result = ErrorCode(call.resp.status)

\* C3: every command operation writes exactly one command and reads at most
\* one response per invocation, never sends again, and when the write or the
\* read fails it returns that transport error at once, no status inspected.
C3_OneRoundTripNoRetry ==
    IsCommand =>
        /\ Writes <= 1 /\ Reads <= 1 /\ call.sends <= 1
        /\ call.pc \in {"await", "returned"} => Writes = 1
        /\ Reads = 1 => Ios[1] = Io("write", "ok")
        /\ Failures # <<>> =>
              /\ call.pc = "returned"
              /\ Ios[Len(Ios)].res # "ok"
              /\ call.result = TransportError(Ios[Len(Ios)].res)
              /\ ~call.checked

C3_Witness ==
    /\ call.op = "get_rand"
    /\ call.pc = "returned"
    /\ Ios = <<Io("write", "ok"), Io("read", "ChannelClosed")>>
    /\ call.result = TransportError("ChannelClosed")
    /\ ncalls > 0

\* C4: for every command operation a response whose status is not success
\* yields a controller error carrying that status code, and the response's
\* payload (power level, random bytes) is not returned.
C4_StatusBeforePayload ==
    (IsCommand /\ call.pc = "returned" /\ RoundTripOk) =>
        /\ call.resp.status # 0 => call.result = ErrorCode(call.resp.status)
        /\ call.result.tag = "Ok" => call.resp.status = 0

C4_Witness ==
    /\ call.op = "get_advertising_tx_power"
    /\ call.pc = "returned"
    /\ RoundTripOk
    /\ call.resp.status = MaxStatus
    /\ call.result = ErrorCode(MaxStatus)

\* ------------------------------------------------ claims on the streams
\* A stream method has been called against `call.arg`, the read results the
\* transport has ready, and the call has come back.
StreamCalled(op) == call.op = op /\ call.pc = "returned"
Yields == call.result.tag = "Stream"
Vals(items) == [i \in 1 .. Len(items) |-> items[i].val]
IsErr(v) == v.tag = "Err"
IsTransportErr(v) == v.tag = "Err" /\ v.err \in TransportErrors
IsDecodeErr(v) == v.tag = "Err" /\ v.err \notin TransportErrors
IsEvent(v) == v.tag = "Ok"
IsNonMeta(v) == IsEvent(v) /\ v.val[1].event_code # LEMeta
IsReports(v) == IsEvent(v) /\ v.val[1].event_code = LEMeta /\ v.val[1].form = "Reports"
IsUndecodable(v) == IsEvent(v) /\ v.val[1].event_code = LEMeta /\ v.val[1].form # "Reports"

\* C5: the flattener turns a success item holding reports R1..Rn (n >= 1)
\* into exactly the items Ok(R1)..Ok(Rn), in that order, none lost, none
\* repeated.
C5_FlattenRoundTrip ==
    (/\ StreamCalled("advertisement_stream")
     /\ Len(call.arg) = 1
     /\ IsReports(call.arg[1])
     /\ call.arg[1].val[1].reports # <<>>) =>
        LET rs == call.arg[1].val[1].reports IN
        /\ Yields
        /\ Vals(call.result.val) = [i \in 1 .. Len(rs) |-> Ok(<<rs[i]>>)]

\* C6: every error item reaching the flattener comes out as exactly one
\* error item carrying the same error, and the items behind it still come.
C6_FlattenErrorOnce ==
    (/\ StreamCalled("advertisement_stream")
     /\ \E i \in 1 .. Len(call.arg) : ~IsReports(call.arg[i]) /\ ~IsNonMeta(call.arg[i])) =>
        /\ Yields
        /\ SelectSeq(Vals(call.result.val), IsErr)
              = SelectSeq(Vals(FilterMap(Unfold(call.arg), 0)), IsErr)
        /\ Len(SelectSeq(Vals(call.result.val), LAMBDA v : ~IsErr(v)))
              = Len(Vals(Flatten(FilterMap(Unfold(
                      SelectSeq(call.arg, IsReports)), 0), 0)))

\* C7: an event read successfully whose code is not LE-Meta is consumed and
\* produces no item of advertising_report_stream, neither Ok nor Err.
C7_NonMetaDropped ==
    (/\ StreamCalled("advertising_report_stream")
     /\ \E i \in 1 .. Len(call.arg) : IsNonMeta(call.arg[i])) =>
        /\ Yields
        /\ Len(call.result.val)
              = Len(SelectSeq(call.arg, LAMBDA v : ~IsNonMeta(v)))
        /\ Vals(call.result.val)
              = Vals(FilterMap(Unfold(SelectSeq(call.arg, LAMBDA v : ~IsNonMeta(v))), 0))

\* C8: an LE-Meta event that does not decode as an Advertising Report yields
\* exactly one decode error item, and the valid events around it are still
\* delivered, unaffected.
C8_DecodeErrorIsAnItem ==
    (/\ StreamCalled("advertising_report_stream")
     /\ \A i \in 1 .. Len(call.arg) : IsReports(call.arg[i]) \/ IsUndecodable(call.arg[i])
     /\ \E i \in 1 .. Len(call.arg) : IsUndecodable(call.arg[i])) =>
        /\ Yields
        /\ Len(call.result.val) = Len(call.arg)
        /\ \A i \in 1 .. Len(call.arg) :
              IF IsUndecodable(call.arg[i])
                THEN IsDecodeErr(call.result.val[i].val)
                ELSE call.result.val[i].val = Ok(call.arg[i].val[1].reports)

\* C9: an error item of the event source passes advertising_report_stream as
\* one error item carrying the same error, and the sequence goes on.
C9_SourceErrorPassesThrough ==
    (/\ StreamCalled("advertising_report_stream")
     /\ \E i \in 1 .. Len(call.arg) : IsTransportErr(call.arg[i])) =>
        /\ Yields
        /\ SelectSeq(Vals(call.result.val), IsTransportErr)
              = SelectSeq(call.arg, IsTransportErr)
        /\ Len(call.result.val)
              = Len(SelectSeq(call.arg, LAMBDA v : ~IsNonMeta(v)))

\* C10: each pull of hci_event_stream performs exactly one transport read and
\* yields that read's result; a failed read is an error item, and the next
\* pull reads again.
C10_OneReadPerPull ==
    (StreamCalled("hci_event_stream") /\ call.arg # <<>>) =>
        /\ Yields
        /\ Vals(call.result.val) = call.arg
        /\ \A i \in 1 .. Len(call.result.val) : call.result.val[i].reads = 1

\* What one read result contributes to advertisement_stream's output.
PerEvent(e) == Vals(Flatten(FilterMap(Unfold(<<e>>), 0), 0))
RECURSIVE ConcatEvents(_)
ConcatEvents(s) ==
    IF s = <<>> THEN <<>> ELSE PerEvent(Head(s)) \o ConcatEvents(Tail(s))
\* For each output item, the position in the script of the read it stems from.
RECURSIVE Origins(_, _)
Origins(s, i) ==
    IF s = <<>>
      THEN <<>>
      ELSE [k \in 1 .. Len(PerEvent(Head(s))) |-> i] \o Origins(Tail(s), i + 1)
\* Transport reads performed by the pulls up to and including the j-th.
RECURSIVE SumReads(_, _)
SumReads(items, j) == IF j = 0 THEN 0 ELSE items[j].reads + SumReads(items, j - 1)

\* C11: across hci_event_stream -> advertising_report_stream ->
\* advertisement_stream the output items come in the order their events were
\* read: all items of an earlier event precede all items of a later one, and
\* an item is delivered before any later event is read.
C11_PipelineOrder ==
    (/\ StreamCalled("advertisement_stream")
     /\ Len(call.arg) >= 2
     /\ \A i \in 1 .. Len(call.arg) : PerEvent(call.arg[i]) # <<>>) =>
        /\ Yields
        /\ Vals(call.result.val) = ConcatEvents(call.arg)
        /\ \A j \in 1 .. Len(call.result.val) :
              SumReads(call.result.val, j) = Origins(call.arg, 1)[j]

\* The payload the current command hands back on success.
ExpectedPayload ==
    CASE call.op = "get_advertising_tx_power" -> <<call.resp.power_level>>
      [] call.op = "get_rand" -> call.resp.random_bytes
      [] OTHER -> Unit
LastFailedLocally ==
    last.tag = "Err" /\ last.err \in {"ErrorCode", "BadParameter"}

\* C13: a controller status error or a BadParameter rejection ends that call
\* only: the next command on the same adapter can start, performs one write
\* and at most one read, and its result is decided by its own round trip
\* alone.
C13_FailureIsPerCall ==
    LastFailedLocally =>
        /\ (call.pc = "idle" /\ ncalls < MaxCalls) => ENABLED get_rand
        /\ (IsCommand /\ call.pc = "returned") =>
              /\ Writes = 1 /\ Reads <= 1
              /\ RoundTripOk =>
                    call.result = IF call.resp.status # 0
                                    THEN ErrorCode(call.resp.status)
                                    ELSE Ok(ExpectedPayload)
              /\ ~RoundTripOk =>
                    call.result = TransportError(Ios[Len(Ios)].res)

C13_Witness ==
    /\ last = ErrorCode(1)
    /\ call.op = "get_advertising_tx_power"
    /\ call.pc = "returned"
    /\ RoundTripOk
    /\ call.result = Ok(<<4>>)

\* C14: set_advertising_enable, set_advertising_parameters and
\* set_advertising_data called through the Advertiser trait behave as the
\* inherent methods of the same name: BadParameter with the transport
\* untouched for a payload over 31 bytes, otherwise one command written, at
\* most one response read, a transport error returned as it is, and the
\* result decided by the response's status.
C14_AdvertiserSameAsInherent ==
    call.op \in AdvertiserOps =>
        IF call.op = "Advertiser::set_advertising_data" /\ Len(call.arg) > MAX_ADV_LEN
          THEN /\ call.pc = "returned"
               /\ call.result = BadParameter
               /\ hist = call.hist0
          ELSE /\ Writes <= 1 /\ Reads <= 1
               /\ call.pc = "returned" =>
                     /\ Writes = 1
                     /\ RoundTripOk =>
                           call.result = IF call.resp.status # 0
                                           THEN ErrorCode(call.resp.status)
                                           ELSE Ok(Unit)
                     /\ ~RoundTripOk =>
                           call.result = TransportError(Ios[Len(Ios)].res)

C14_Witness ==
    /\ call.op = "Advertiser::set_advertising_data"
    /\ Len(call.arg) = MAX_ADV_LEN + 1
    /\ call.pc = "returned"
    /\ call.result = BadParameter
    /\ hist # <<>>

StreamOps == { "hci_event_stream", "advertising_report_stream", "advertisement_stream" }
Reports(v) == v.val[1].reports

\* C15: calling hci_event_stream (and the streams built on it) succeeds and
\* reads nothing from the transport; reads happen on pulls only, and the
\* event source yields an item for every read, never the end of the stream.
C15_ConstructionIsLazy ==
    (call.op \in StreamOps /\ call.pc = "returned") =>
        /\ Yields
        /\ hist = call.hist0
        /\ call.op = "hci_event_stream" => Len(call.result.val) = Len(call.arg)

\* C16: on a response whose status is success get_rand returns exactly 8
\* bytes, the response's random bytes as they are.
C16_RandBlock ==
    (/\ call.op = "get_rand"
     /\ call.pc = "returned"
     /\ RoundTripOk
     /\ call.resp.status = 0) =>
        /\ call.result.tag = "Ok"
        /\ Len(call.result.val) = RAND_LEN
        /\ call.result.val = call.resp.random_bytes

C16_Witness ==
    /\ call.op = "get_rand"
    /\ call.pc = "returned"
    /\ RoundTripOk
    /\ call.resp.status = 0
    /\ call.result = Ok([i \in 1 .. RAND_LEN |-> i])

\* C17: a success item whose collection is empty produces no item of
\* advertisement_stream; the pull that meets it goes on to the next upstream
\* item.
C17_EmptyCollectionSkipped ==
    (/\ StreamCalled("advertisement_stream")
     /\ Len(call.arg) = 2
     /\ IsReports(call.arg[1]) /\ Reports(call.arg[1]) = <<>>
     /\ IsReports(call.arg[2]) /\ Reports(call.arg[2]) # <<>>) =>
        LET rs == Reports(call.arg[2]) IN
        /\ Yields
        /\ Vals(call.result.val) = [i \in 1 .. Len(rs) |-> Ok(<<rs[i]>>)]
        /\ call.result.val[1].reads = 2

C19_ReadOnlyWhenDrained ==
    (/\ StreamCalled("advertisement_stream")
     /\ call.arg # <<>>
     /\ \A i \in 1 .. Len(call.arg) : IsReports(call.arg[i]) /\ Reports(call.arg[i]) # <<>>
     /\ \E i \in 1 .. Len(call.arg) : Len(Reports(call.arg[i])) >= 2) =>
        /\ Yields
        /\ call.result.val # <<>>
        /\ \A j \in 1 .. Len(call.result.val) :
              call.result.val[j].reads =
                  IF j = 1 \/ Origins(call.arg, 1)[j] # Origins(call.arg, 1)[j - 1]
                    THEN 1 ELSE 0
        /\ SumReads(call.result.val, Len(call.result.val)) = Len(call.arg)

\* C20: one pull of advertising_report_stream performs 1 + k reads, k being
\* the non-LE-Meta events read before the first read that fails or brings an
\* LE-Meta event, and yields one item for that read; reads that bring only
\* non-LE-Meta events complete no pull, and the stream never ends.
C20_PullReadsUntilItem ==
    (/\ StreamCalled("advertising_report_stream")
     /\ call.arg # <<>>
     /\ \A i \in 1 .. Len(call.arg) - 1 : IsNonMeta(call.arg[i])) =>
        /\ Yields
        /\ IF IsNonMeta(call.arg[Len(call.arg)])
             THEN call.result.val = <<>>
             ELSE /\ Len(call.result.val) = 1
                  /\ call.result.val[1].reads = Len(call.arg)

====
